---------------------------- MODULE Spec2Model ----------------------------
(***************************************************************************)
(* Model of package httperror (src/httperror/httperror.go).                *)
(*                                                                         *)
(* Go error values are objects on a heap; an error's identity is its heap  *)
(* index (a *HTTPError pointer, or the pointer behind an errors.New /      *)
(* fmt.Errorf value).  Nil is the nil error / nil *HTTPError.              *)
(*                                                                         *)
(* The state-changing operations (the constructors, WrapError,             *)
(* ToHTTPError, AddMetaValue, and the standard library's errors.New and    *)
(* fmt.Errorf("...%w") that callers use to make the errors they pass in)   *)
(* are the actions of Spec.  GetStatusCode, IsHTTPError, IsStatus and the  *)
(* named and band predicates are pure functions of the heap: they are      *)
(* operators, applied by the actions of PredSpec to chains of errors       *)
(* whose HTTPError code ranges over PredCodes.                             *)
(***************************************************************************)
EXTENDS Integers, Sequences, FiniteSets, TLC

VARIABLES
    heap,      \* the error objects allocated so far; heap[i] is object i
    written,   \* history: written[i][k] is the value of the last AddMetaValue(k, _) call on object i
    last,      \* the last call made: its name, arguments and result
    calls      \* the number of constructor, WrapError, ToHTTPError and AddMetaValue calls made

vars == <<heap, written, last, calls>>

---------------------------------------------------------------------------
(* Bounds of the model *)

\* at most this many error objects are allocated
MaxObjs == 3

\* at most this many calls of the constructors, WrapError, ToHTTPError and
\* AddMetaValue are made in a behaviour of Spec
MaxCalls == 5

\* PredSpec wraps its errors in up to this many fmt.Errorf("...%w") layers
MaxLayers == 2

\* PredSpec constructs HTTPErrors with every code in 190..MaxCode (and -1, 0)
MaxCode == 600

---------------------------------------------------------------------------
(* net/http status constants used by httperror.go *)

StatusOK == 200
StatusCreated == 201
StatusAccepted == 202
StatusNoContent == 204
StatusMultipleChoices == 300
StatusBadRequest == 400
StatusUnauthorized == 401
StatusForbidden == 403
StatusNotFound == 404
StatusTeapot == 418
StatusInternalServerError == 500
StatusBadGateway == 502
StatusServiceUnavailable == 503
StatusGatewayTimeout == 504
StatusNetworkAuthenticationRequired == 511

---------------------------------------------------------------------------
(* Inputs *)

\* the nil error, the nil *HTTPError
Nil == 0

\* codes passed to NewHTTPError / NewHTTPErrorf in Spec; no code is special to them
NewCodes == {0, StatusNotFound}

\* codes passed to WrapError in Spec; 0 is the "unset" code
WrapCodes == {0, StatusBadRequest}

Messages == {"not found"}
Texts == {"standard error"}

\* a format is a sequence of tokens: literal text, or the verb "%d"
Formats == {<<"user ", "%d", " not found">>}
ArgLists == {<<123>>}

Keys == {"key", "user_id"}
Vals == {"value", "other"}

\* what Meta[k] is when k is not in the map
NoValue == "<absent>"

---------------------------------------------------------------------------
(* The data model: type HTTPError struct {Code, Message, Meta, err} *)

\* make(map[string]any): an empty, non-nil map
MakeMap == [nil |-> FALSE, kv |-> [k \in Keys |-> NoValue]]

\* the zero value of a map (no map at all); errors that are not HTTPErrors have no Meta
NilMap == [nil |-> TRUE, kv |-> [k \in Keys |-> NoValue]]

\* &HTTPError{Code: code, Message: message, Meta: make(map[string]any), err: err}
HTTPError(code, message, err) ==
    [kind |-> "http", Code |-> code, Message |-> message, Meta |-> MakeMap,
     err |-> err, s |-> ""]

\* an error of another type: errors.New(text) (cause = Nil), or the
\* *fmt.wrapError that fmt.Errorf("...%w", cause) returns
PlainError(text, cause) ==
    [kind |-> "plain", Code |-> 0, Message |-> "", Meta |-> NilMap,
     err |-> cause, s |-> text]

Ids(h) == 1..Len(h)

\* the type assertion  err.(*HTTPError)  succeeds: err itself is an HTTPError
IsHTTPErrorType(h, e) == e # Nil /\ h[e].kind = "http"

\* fmt.Sprintf over a tokenised format: "%d" consumes the next argument
RECURSIVE Sprintf(_, _)
Sprintf(format, args) ==
    IF format = <<>> THEN ""
    ELSE IF Head(format) = "%d"
         THEN IF args = <<>>
              THEN "%!d(MISSING)" \o Sprintf(Tail(format), args)
              ELSE ToString(Head(args)) \o Sprintf(Tail(format), Tail(args))
         ELSE Head(format) \o Sprintf(Tail(format), args)

\* Error with the "- " before the message left out
ErrorNoDash(h, e) ==
    IF h[e].kind = "http"
    THEN "[" \o ToString(h[e].Code) \o "] HTTP Error: " \o h[e].Message
    ELSE h[e].s

\* func (e *HTTPError) Error() string; for other errors, their stored text
Error(h, e) ==
    IF h[e].kind = "http"
    THEN "[" \o ToString(h[e].Code) \o "] HTTP Error: - " \o h[e].Message
    ELSE h[e].s

\* func (e *HTTPError) Unwrap() error; errors.Unwrap for the other errors
Unwrap(h, e) == h[e].err

---------------------------------------------------------------------------
(* The functions of the package, as functions of the heap.  A function     *)
(* that returns a pointer yields [heap |-> the heap after, ret |-> it].    *)

\* NewHTTPError that treats code 0 as unset, as WrapError does
NewHTTPErrorDefaults(h, code, message) ==
    LET c == IF code = 0 THEN StatusInternalServerError ELSE code
    IN  [heap |-> Append(h, HTTPError(c, message, Nil)), ret |-> Len(h) + 1]

\* func NewHTTPError(code int, message string) *HTTPError
NewHTTPError(h, code, message) ==
    [heap |-> Append(h, HTTPError(code, message, Nil)), ret |-> Len(h) + 1]

\* func NewHTTPErrorf(code int, format string, args ...any) *HTTPError
NewHTTPErrorf(h, code, format, args) ==
    [heap |-> Append(h, HTTPError(code, Sprintf(format, args), Nil)), ret |-> Len(h) + 1]

\* WrapError without the type assertion on err: an HTTPError is wrapped again
WrapErrorAlwaysNew(h, code, e) ==
    LET c == IF code = 0 THEN StatusInternalServerError ELSE code
    IN  [heap |-> Append(h, HTTPError(c, Error(h, e), e)), ret |-> Len(h) + 1]

\* WrapError without the default for code 0
WrapErrorNoDefault(h, code, e) ==
    IF IsHTTPErrorType(h, e)
    THEN [heap |-> h, ret |-> e]
    ELSE [heap |-> Append(h, HTTPError(code, Error(h, e), e)), ret |-> Len(h) + 1]

\* func WrapError(code int, err error) *HTTPError     (err # nil)
WrapError(h, code, e) ==
    IF IsHTTPErrorType(h, e)
    THEN [heap |-> h, ret |-> e]
    ELSE LET c == IF code = 0 THEN StatusInternalServerError ELSE code
         IN  [heap |-> Append(h, HTTPError(c, Error(h, e), e)), ret |-> Len(h) + 1]

\* AddMetaValue that keeps the value a key already has
AddMetaValueFirstWins(h, e, key, value) ==
    IF h[e].Meta.kv[key] = NoValue
    THEN [heap |-> [h EXCEPT ![e].Meta.kv[key] = value], ret |-> e]
    ELSE [heap |-> h, ret |-> e]

\* func (e *HTTPError) AddMetaValue(key string, value any) *HTTPError
AddMetaValue(h, e, key, value) ==
    [heap |-> [h EXCEPT ![e].Meta.kv[key] = value], ret |-> e]

\* func GetStatusCode(err error) int
GetStatusCode(h, e) ==
    IF IsHTTPErrorType(h, e) THEN h[e].Code ELSE StatusInternalServerError

\* ToHTTPError that returns a copy of an HTTPError instead of the HTTPError
ToHTTPErrorCopies(h, e) ==
    IF e = Nil THEN [heap |-> h, ret |-> Nil]
    ELSE IF IsHTTPErrorType(h, e) THEN [heap |-> Append(h, h[e]), ret |-> Len(h) + 1]
    ELSE WrapError(h, GetStatusCode(h, e), e)

\* func ToHTTPError(err error) *HTTPError
ToHTTPError(h, e) ==
    IF e = Nil THEN [heap |-> h, ret |-> Nil]
    ELSE IF IsHTTPErrorType(h, e) THEN [heap |-> h, ret |-> e]
    ELSE WrapError(h, GetStatusCode(h, e), e)

\* errors.New(text)
ErrorsNew(h, text) ==
    [heap |-> Append(h, PlainError(text, Nil)), ret |-> Len(h) + 1]

\* fmt.Errorf("ctx: %w", err)     (err # nil)
Errorf(h, e) ==
    [heap |-> Append(h, PlainError("ctx: " \o Error(h, e), e)), ret |-> Len(h) + 1]

\* errors.As(err, &httpErr) with httpErr of type *HTTPError: the first error
\* of err's chain that is an HTTPError (Nil when As returns false)
RECURSIVE As(_, _)
As(h, e) ==
    IF e = Nil THEN Nil
    ELSE IF IsHTTPErrorType(h, e) THEN e
    ELSE As(h, Unwrap(h, e))

\* func IsHTTPError(err error) bool
IsHTTPError(h, e) == As(h, e) # Nil

IsOK(h, e) ==
    LET httpErr == As(h, e) IN httpErr # Nil /\ h[httpErr].Code = StatusOK

IsCreated(h, e) ==
    LET httpErr == As(h, e) IN httpErr # Nil /\ h[httpErr].Code = StatusCreated

IsAccepted(h, e) ==
    LET httpErr == As(h, e) IN httpErr # Nil /\ h[httpErr].Code = StatusAccepted

IsNoContent(h, e) ==
    LET httpErr == As(h, e) IN httpErr # Nil /\ h[httpErr].Code = StatusNoContent

IsBadRequest(h, e) ==
    LET httpErr == As(h, e) IN httpErr # Nil /\ h[httpErr].Code = StatusBadRequest

IsUnauthorized(h, e) ==
    LET httpErr == As(h, e) IN httpErr # Nil /\ h[httpErr].Code = StatusUnauthorized

IsForbidden(h, e) ==
    LET httpErr == As(h, e) IN httpErr # Nil /\ h[httpErr].Code = StatusForbidden

IsNotFound(h, e) ==
    LET httpErr == As(h, e) IN httpErr # Nil /\ h[httpErr].Code = StatusNotFound

IsInternalServerError(h, e) ==
    LET httpErr == As(h, e) IN httpErr # Nil /\ h[httpErr].Code = StatusInternalServerError

IsBadGateway(h, e) ==
    LET httpErr == As(h, e) IN httpErr # Nil /\ h[httpErr].Code = StatusBadGateway

IsServiceUnavailable(h, e) ==
    LET httpErr == As(h, e) IN httpErr # Nil /\ h[httpErr].Code = StatusServiceUnavailable

IsGatewayTimeout(h, e) ==
    LET httpErr == As(h, e) IN httpErr # Nil /\ h[httpErr].Code = StatusGatewayTimeout

\* IsStatus by comparing GetStatusCode, which defaults to 500
IsStatusOfGetStatusCode(h, e, status) == GetStatusCode(h, e) = status

\* IsStatus with the type assertion in place of errors.As
IsStatusTopLevel(h, e, status) == IsHTTPErrorType(h, e) /\ h[e].Code = status

\* func IsStatus(err error, status int) bool
IsStatus(h, e, status) ==
    LET httpErr == As(h, e) IN httpErr # Nil /\ h[httpErr].Code = status

IsClientError(h, e) ==
    LET httpErr == As(h, e)
    IN  /\ httpErr # Nil
        /\ h[httpErr].Code >= StatusBadRequest
        /\ h[httpErr].Code < StatusInternalServerError

\* IsServerError with the upper bound included
IsServerErrorInclusive(h, e) ==
    LET httpErr == As(h, e)
    IN  /\ httpErr # Nil
        /\ h[httpErr].Code >= StatusInternalServerError
        /\ h[httpErr].Code <= StatusNetworkAuthenticationRequired

IsServerError(h, e) ==
    LET httpErr == As(h, e)
    IN  /\ httpErr # Nil
        /\ h[httpErr].Code >= StatusInternalServerError
        /\ h[httpErr].Code < StatusNetworkAuthenticationRequired

IsError(h, e) ==
    LET httpErr == As(h, e)
    IN  /\ httpErr # Nil
        /\ h[httpErr].Code >= StatusBadRequest
        /\ h[httpErr].Code < StatusNetworkAuthenticationRequired

IsSuccess(h, e) ==
    LET httpErr == As(h, e)
    IN  /\ httpErr # Nil
        /\ h[httpErr].Code >= StatusOK
        /\ h[httpErr].Code < StatusMultipleChoices

IsRedirect(h, e) ==
    LET httpErr == As(h, e)
    IN  /\ httpErr # Nil
        /\ h[httpErr].Code >= StatusMultipleChoices
        /\ h[httpErr].Code < StatusBadRequest

---------------------------------------------------------------------------
(* Calls *)

\* old: the value Meta[key] had when AddMetaValue(key, _) was called;
\* msg: the message argument of NewHTTPError; str: a string result
NoCall ==
    [op |-> "none", arg |-> Nil, code |-> 0, msg |-> "", key |-> "", value |-> "",
     old |-> "", ret |-> Nil, n |-> 0, b |-> FALSE, str |-> "", panic |-> FALSE]

Call(op, arg, code) == [NoCall EXCEPT !.op = op, !.arg = arg, !.code = code]

\* a history entry for every newly allocated object
Grow(w, h) == [i \in Ids(h) |-> IF i \in DOMAIN w THEN w[i] ELSE [k \in Keys |-> NoValue]]

\* the call returned r = [heap, ret]: the heap is bounded by MaxObjs
Returns(c, r) ==
    /\ Len(r.heap) <= MaxObjs
    /\ heap' = r.heap
    /\ written' = Grow(written, r.heap)
    /\ last' = [c EXCEPT !.ret = r.ret]
    /\ calls' = calls + 1

\* a nil pointer dereference: the goroutine panics, nothing is returned
Panics(c) ==
    /\ last' = [c EXCEPT !.panic = TRUE]
    /\ UNCHANGED <<heap, written>>
    /\ calls' = calls + 1

Running == ~last.panic /\ calls < MaxCalls

Init ==
    /\ heap = <<>>
    /\ written = <<>>
    /\ last = NoCall
    /\ calls = 0

\* errors.New(text), by a caller
CallErrorsNew ==
    \E t \in Texts :
        /\ Running
        /\ Returns(Call("errors.New", Nil, 0), ErrorsNew(heap, t))

\* fmt.Errorf("ctx: %w", e), by a caller
CallErrorf ==
    \E e \in Ids(heap) :
        /\ Running
        /\ Returns(Call("fmt.Errorf", e, 0), Errorf(heap, e))

CallNewHTTPError ==
    \E c \in NewCodes, m \in Messages :
        /\ Running
        /\ Returns([Call("NewHTTPError", Nil, c) EXCEPT !.msg = m], NewHTTPError(heap, c, m))

CallNewHTTPErrorf ==
    \E c \in NewCodes, f \in Formats, a \in ArgLists :
        /\ Running
        /\ Returns(Call("NewHTTPErrorf", Nil, c), NewHTTPErrorf(heap, c, f, a))

CallWrapError ==
    \E c \in WrapCodes, e \in Ids(heap) \cup {Nil} :
        /\ Running
        /\ IF e = Nil
           THEN Panics(Call("WrapError", e, c))    \* err.Error() on a nil error
           ELSE Returns(Call("WrapError", e, c), WrapError(heap, c, e))

CallToHTTPError ==
    \E e \in Ids(heap) \cup {Nil} :
        /\ Running
        /\ Returns(Call("ToHTTPError", e, 0), ToHTTPError(heap, e))

CallAddMetaValue ==
    \E e \in Ids(heap), k \in Keys, v \in Vals :
        /\ Running
        /\ IsHTTPErrorType(heap, e)
        /\ LET r == AddMetaValue(heap, e, k, v)
           IN  /\ Len(r.heap) <= MaxObjs
               /\ heap' = r.heap
               /\ written' = Grow([written EXCEPT ![e][k] = v], r.heap)
               /\ last' = [Call("AddMetaValue", e, 0) EXCEPT
                              !.key = k, !.value = v, !.old = heap[e].Meta.kv[k],
                              !.ret = r.ret]
               /\ calls' = calls + 1

Next ==
    \/ CallErrorsNew
    \/ CallErrorf
    \/ CallNewHTTPError
    \/ CallNewHTTPErrorf
    \/ CallWrapError
    \/ CallToHTTPError
    \/ CallAddMetaValue

Spec == Init /\ [][Next]_vars

---------------------------------------------------------------------------
(* PredSpec: the pure functions applied to chains of errors.  An initial   *)
(* state is a heap that calls of the constructors build: a base error      *)
(* under 0..MaxLayers layers of fmt.Errorf("ctx: %w").                     *)

PredCodes == {-1, 0} \cup (190..MaxCode)

\* status arguments passed to IsStatus
StatusArgs == {StatusOK, StatusNotFound, StatusTeapot, StatusInternalServerError}

\* k more fmt.Errorf layers over the newest error of h
RECURSIVE Layers(_, _)
Layers(h, k) == IF k = 0 THEN h ELSE Layers(Errorf(h, Len(h)).heap, k - 1)

\* the bases: an HTTPError; an error that is none; an HTTPError wrapping one
\* that is none; an HTTPError wrapping an error that wraps another HTTPError
Bases(c) ==
    { NewHTTPError(<<>>, c, "not found").heap,
      ErrorsNew(<<>>, "standard error").heap,
      WrapError(ErrorsNew(<<>>, "standard error").heap, c, 1).heap,
      WrapError(Errorf(NewHTTPError(<<>>, StatusNotFound, "not found").heap, 1).heap, c, 2).heap }

PredHeaps == { Layers(b, k) : b \in UNION { Bases(c) : c \in PredCodes }, k \in 0..MaxLayers }

PredInit ==
    /\ heap \in PredHeaps
    /\ written = Grow(<<>>, heap)
    /\ last = NoCall
    /\ calls = 0

\* one function is applied to one error in a behaviour of PredSpec
Fresh == last.op = "none"

Errs == Ids(heap) \cup {Nil}

ReturnsBool(c, b) ==
    /\ Fresh
    /\ last' = [c EXCEPT !.b = b]
    /\ UNCHANGED <<heap, written, calls>>

CallGetStatusCode ==
    \E e \in Errs :
        /\ Fresh
        /\ last' = [Call("GetStatusCode", e, 0) EXCEPT !.n = GetStatusCode(heap, e)]
        /\ UNCHANGED <<heap, written, calls>>

CallIsHTTPError == \E e \in Errs : ReturnsBool(Call("IsHTTPError", e, 0), IsHTTPError(heap, e))

CallIsStatus ==
    \E e \in Errs, s \in StatusArgs : ReturnsBool(Call("IsStatus", e, s), IsStatus(heap, e, s))

CallIsOK == \E e \in Errs : ReturnsBool(Call("IsOK", e, 0), IsOK(heap, e))

CallIsCreated == \E e \in Errs : ReturnsBool(Call("IsCreated", e, 0), IsCreated(heap, e))

CallIsAccepted == \E e \in Errs : ReturnsBool(Call("IsAccepted", e, 0), IsAccepted(heap, e))

CallIsNoContent == \E e \in Errs : ReturnsBool(Call("IsNoContent", e, 0), IsNoContent(heap, e))

CallIsBadRequest == \E e \in Errs : ReturnsBool(Call("IsBadRequest", e, 0), IsBadRequest(heap, e))

CallIsUnauthorized ==
    \E e \in Errs : ReturnsBool(Call("IsUnauthorized", e, 0), IsUnauthorized(heap, e))

CallIsForbidden == \E e \in Errs : ReturnsBool(Call("IsForbidden", e, 0), IsForbidden(heap, e))

CallIsNotFound == \E e \in Errs : ReturnsBool(Call("IsNotFound", e, 0), IsNotFound(heap, e))

CallIsInternalServerError ==
    \E e \in Errs :
        ReturnsBool(Call("IsInternalServerError", e, 0), IsInternalServerError(heap, e))

CallIsBadGateway == \E e \in Errs : ReturnsBool(Call("IsBadGateway", e, 0), IsBadGateway(heap, e))

CallIsServiceUnavailable ==
    \E e \in Errs :
        ReturnsBool(Call("IsServiceUnavailable", e, 0), IsServiceUnavailable(heap, e))

CallIsGatewayTimeout ==
    \E e \in Errs : ReturnsBool(Call("IsGatewayTimeout", e, 0), IsGatewayTimeout(heap, e))

CallIsClientError ==
    \E e \in Errs : ReturnsBool(Call("IsClientError", e, 0), IsClientError(heap, e))

CallIsServerError ==
    \E e \in Errs : ReturnsBool(Call("IsServerError", e, 0), IsServerError(heap, e))

CallIsError == \E e \in Errs : ReturnsBool(Call("IsError", e, 0), IsError(heap, e))

CallIsSuccess == \E e \in Errs : ReturnsBool(Call("IsSuccess", e, 0), IsSuccess(heap, e))

CallIsRedirect == \E e \in Errs : ReturnsBool(Call("IsRedirect", e, 0), IsRedirect(heap, e))

\* e.Error(), on a non-nil error
CallError ==
    \E e \in Ids(heap) :
        /\ Fresh
        /\ last' = [Call("Error", e, 0) EXCEPT !.str = Error(heap, e)]
        /\ UNCHANGED <<heap, written, calls>>

PredNext ==
    \/ CallGetStatusCode
    \/ CallIsHTTPError
    \/ CallIsStatus
    \/ CallIsOK
    \/ CallIsCreated
    \/ CallIsAccepted
    \/ CallIsNoContent
    \/ CallIsBadRequest
    \/ CallIsUnauthorized
    \/ CallIsForbidden
    \/ CallIsNotFound
    \/ CallIsInternalServerError
    \/ CallIsBadGateway
    \/ CallIsServiceUnavailable
    \/ CallIsGatewayTimeout
    \/ CallIsClientError
    \/ CallIsServerError
    \/ CallIsError
    \/ CallIsSuccess
    \/ CallIsRedirect
    \/ CallError

PredSpec == PredInit /\ [][PredNext]_vars

---------------------------------------------------------------------------
(* The claims.  They speak of an error's wrap chain: the error itself,     *)
(* then each successive Unwrap.                                            *)

RECURSIVE ChainOf(_, _)
ChainOf(h, e) == IF e = Nil THEN <<>> ELSE <<e>> \o ChainOf(h, h[e].err)

\* the positions of e's chain that hold an HTTPError
HTTPPositions(h, e) == { i \in DOMAIN ChainOf(h, e) : h[ChainOf(h, e)[i]].kind = "http" }

HasHTTPError(h, e) == HTTPPositions(h, e) # {}

\* the first HTTPError of e's chain (when HasHTTPError(h, e))
FirstHTTPError(h, e) ==
    ChainOf(h, e)[CHOOSE i \in HTTPPositions(h, e) : \A j \in HTTPPositions(h, e) : i <= j]

FoundCode(h, e) == h[FirstHTTPError(h, e)].Code

EmptyMeta == [nil |-> FALSE, kv |-> [k \in Keys |-> NoValue]]

\* a fresh HTTPError with the given fields
Fresh_HTTPError(code, message, cause) ==
    [kind |-> "http", Code |-> code, Message |-> message, Meta |-> EmptyMeta,
     err |-> cause, s |-> ""]

PredicateOps ==
    {"IsHTTPError", "IsStatus", "IsOK", "IsCreated", "IsAccepted", "IsNoContent",
     "IsBadRequest", "IsUnauthorized", "IsForbidden", "IsNotFound",
     "IsInternalServerError", "IsBadGateway", "IsServiceUnavailable",
     "IsGatewayTimeout", "IsClientError", "IsServerError", "IsError", "IsSuccess",
     "IsRedirect"}

\* C1: GetStatusCode(e) is the Code of the first HTTPError of e's wrap chain,
\* also when that HTTPError lies under errors that are no HTTPError, and is
\* 500 only when the chain holds no HTTPError.
C1_GetStatusCodeWalksChain ==
    last.op = "GetStatusCode" =>
        last.n = IF HasHTTPError(heap, last.arg) THEN FoundCode(heap, last.arg) ELSE 500

\* C2: for a non-nil e that is no HTTPError but wraps one with Code d,
\* ToHTTPError(e) is a new HTTPError with Code d, Message e.Error() and cause
\* e, so that IsStatus(ToHTTPError(e), d) holds.
C2_ToHTTPErrorKeepsFoundCode ==
    ( /\ last.op = "ToHTTPError"
      /\ last.arg # Nil
      /\ heap[last.arg].kind # "http"
      /\ HasHTTPError(heap, last.arg) )
    => /\ last.ret = Len(heap)
       /\ heap[last.ret] = Fresh_HTTPError(FoundCode(heap, last.arg),
                                           Error(heap, last.arg), last.arg)
       /\ IsStatus(heap, last.ret, FoundCode(heap, last.arg))

C3_Step ==
    last'.op = "ToHTTPError" =>
        LET e == last'.arg IN
        /\ e = Nil => last'.ret = Nil /\ heap' = heap
        /\ (e # Nil /\ heap[e].kind = "http") => last'.ret = e /\ heap' = heap
        /\ (e # Nil /\ ~HasHTTPError(heap, e)) =>
              /\ last'.ret = Len(heap) + 1
              /\ heap' = Append(heap, Fresh_HTTPError(500, Error(heap, e), e))

\* C3: ToHTTPError(nil) is nil; ToHTTPError of an HTTPError is that same
\* instance, nothing changed; ToHTTPError of an error with no HTTPError in
\* its chain is a new HTTPError with Code 500, Message e.Error(), an empty
\* non-nil Meta and cause e.
C3_ToHTTPError == [][C3_Step]_vars

C3_Witness ==
    /\ last.op = "ToHTTPError"
    /\ last.arg # Nil
    /\ ~HasHTTPError(heap, last.arg)
    /\ heap[last.arg].err # Nil
    /\ last.ret = Len(heap)
    /\ heap[last.ret].Code = 500
    /\ heap[last.ret].err = last.arg

C4_Step ==
    /\ (last'.op = "WrapError" /\ last'.arg # Nil /\ heap[last'.arg].kind = "http") =>
          /\ ~last'.panic
          /\ last'.ret = last'.arg
          /\ heap' = heap
    /\ (last'.op = "WrapError" /\ ~last'.panic) =>
          \A c2 \in WrapCodes :
              WrapError(heap', c2, last'.ret) = [heap |-> heap', ret |-> last'.ret]

\* C4: WrapError(c2, h) of an HTTPError h is h itself, nothing changed and
\* c2 discarded (also c2 = 0); hence WrapError(c2, WrapError(c1, base)) is
\* WrapError(c1, base).
C4_WrapErrorIdempotent == [][C4_Step]_vars

C4_Witness ==
    /\ last.op = "WrapError"
    /\ last.arg # Nil
    /\ heap[last.arg].kind = "http"
    /\ last.code = 0
    /\ last.ret = last.arg
    /\ heap[last.ret].Code = 404
    /\ heap[last.ret].Meta # EmptyMeta

C5_Step ==
    /\ (last'.op = "WrapError" /\ last'.arg # Nil /\ heap[last'.arg].kind # "http") =>
          LET e == last'.arg
              c == IF last'.code # 0 THEN last'.code ELSE 500
          IN  /\ ~last'.panic
              /\ last'.ret = Len(heap) + 1
              /\ heap' = Append(heap, Fresh_HTTPError(c, Error(heap, e), e))
              /\ Unwrap(heap', last'.ret) = e
    /\ last'.op \in {"NewHTTPError", "NewHTTPErrorf"} =>
          /\ last'.ret = Len(heap) + 1
          /\ Unwrap(heap', last'.ret) = Nil

\* C5: WrapError(c, err) of a non-nil err that is no HTTPError is a new
\* HTTPError with Code c (500 when c = 0), Message err.Error(), an empty
\* non-nil Meta, and Unwrap() = err; Unwrap() of a value of NewHTTPError or
\* NewHTTPErrorf is nil.
C5_WrapErrorNew == [][C5_Step]_vars

C5_Witness ==
    /\ last.op = "WrapError"
    /\ last.code = 0
    /\ last.arg # Nil
    /\ heap[last.arg].kind = "plain"
    /\ last.ret = Len(heap)
    /\ heap[last.ret].Code = 500
    /\ Unwrap(heap, last.ret) = last.arg

\* C6: for an error with no HTTPError in its wrap chain, IsHTTPError,
\* IsStatus (for every status, 500 too), the twelve named predicates and the
\* five band predicates are false, while GetStatusCode is 500.
C6_AbsenceAsymmetry ==
    ~HasHTTPError(heap, last.arg) =>
        /\ last.op \in PredicateOps => last.b = FALSE
        /\ last.op = "GetStatusCode" => last.n = 500

C6_Witness ==
    /\ last.op = "IsStatus"
    /\ last.code = 500
    /\ last.arg # Nil
    /\ heap[last.arg].err # Nil
    /\ ~HasHTTPError(heap, last.arg)
    /\ last.b = FALSE
    /\ GetStatusCode(heap, last.arg) = 500

C8_BandsAsDocumented ==
    (last.arg # Nil /\ heap[last.arg].kind = "http") =>
        LET c == heap[last.arg].Code IN
        /\ (last.op = "IsServerError" /\ 500 <= c /\ c <= 599) => last.b = TRUE
        /\ (last.op = "IsError" /\ 400 <= c /\ c <= 599) => last.b = TRUE

\* C9: IsStatus(e, s) iff e's wrap chain holds an HTTPError and the Code of
\* the first one is s; each named predicate is IsStatus with its constant.
C9_IsStatus ==
    LET e == last.arg
        Named(op, status) == last.op = op => last.b = IsStatus(heap, e, status)
    IN  /\ last.op = "IsStatus" =>
              (last.b <=> (HasHTTPError(heap, e) /\ FoundCode(heap, e) = last.code))
        /\ Named("IsOK", 200)
        /\ Named("IsCreated", 201)
        /\ Named("IsAccepted", 202)
        /\ Named("IsNoContent", 204)
        /\ Named("IsBadRequest", 400)
        /\ Named("IsUnauthorized", 401)
        /\ Named("IsForbidden", 403)
        /\ Named("IsNotFound", 404)
        /\ Named("IsInternalServerError", 500)
        /\ Named("IsBadGateway", 502)
        /\ Named("IsServiceUnavailable", 503)
        /\ Named("IsGatewayTimeout", 504)

C9_Witness ==
    /\ last.op = "IsStatus"
    /\ last.code = 418
    /\ last.b = TRUE
    /\ heap[last.arg].kind = "plain"
    /\ heap[heap[last.arg].err].kind = "plain"
    /\ FoundCode(heap, last.arg) = 418

C10_Step ==
    /\ last'.op = "AddMetaValue" =>
          LET e == last'.arg IN
          /\ last'.ret = e
          /\ Len(heap') = Len(heap)
          /\ \A i \in Ids(heap) : i # e => heap'[i] = heap[i]
          /\ heap'[e].Meta.kv[last'.key] = last'.value
          /\ \A k \in Keys : k # last'.key => heap'[e].Meta.kv[k] = heap[e].Meta.kv[k]
          /\ heap'[e].Meta.nil = heap[e].Meta.nil
          /\ heap'[e].Code = heap[e].Code
          /\ heap'[e].Message = heap[e].Message
          /\ heap'[e].err = heap[e].err
          /\ heap'[e].kind = heap[e].kind
    /\ \A i \in Ids(heap') : heap'[i].kind = "http" => heap'[i].Meta.kv = written'[i]

\* C10: h.AddMetaValue(key, value) returns h itself, sets Meta[key] = value
\* over any earlier value, and changes nothing else; after any sequence of
\* calls Meta holds for each key the value of the last call with that key.
C10_AddMetaValue == [][C10_Step]_vars

C10_Witness ==
    /\ last.op = "AddMetaValue"
    /\ last.old \notin {NoValue, last.value}
    /\ heap[last.arg].Meta.kv[last.key] = last.value
    /\ \E k \in Keys : k # last.key /\ heap[last.arg].Meta.kv[k] # NoValue

C11_Step ==
    /\ \A i \in Ids(heap) :
          heap[i].kind = "http" =>
              /\ heap'[i].kind = "http"
              /\ heap'[i].Code = heap[i].Code
              /\ heap'[i].Message = heap[i].Message
              /\ heap'[i].Meta.nil = FALSE
    /\ \A i \in Ids(heap') \ Ids(heap) :
          heap'[i].kind = "http" => heap'[i].Meta = EmptyMeta
    /\ last'.op = "NewHTTPError" =>
          /\ last'.ret = Len(heap) + 1
          /\ heap'[last'.ret].kind = "http"
          /\ heap'[last'.ret].Code = last'.code
          /\ heap'[last'.ret].Message = last'.msg
    /\ last'.op = "NewHTTPErrorf" =>
          /\ last'.ret = Len(heap) + 1
          /\ heap'[last'.ret].kind = "http"
          /\ heap'[last'.ret].Code = last'.code

\* C11: every HTTPError made by NewHTTPError, NewHTTPErrorf, WrapError or
\* ToHTTPError has a non-nil Meta, empty right after construction, and keeps
\* the Code and Message of its construction through every later call; for
\* NewHTTPError(c, m), Code is c (any integer, 0 too) and Message is m.
C11_ConstructionInvariant == [][C11_Step]_vars

C11_Witness ==
    /\ last.op = "ToHTTPError"
    /\ last.arg # Nil
    /\ heap[last.arg].kind = "http"
    /\ heap[last.arg].err = Nil
    /\ heap[last.arg].Code = 0
    /\ heap[last.arg].Message = "not found"
    /\ heap[last.arg].Meta.nil = FALSE
    /\ \E k \in Keys : heap[last.arg].Meta.kv[k] # NoValue
    /\ calls >= 4

Digit(d) ==
    CASE d = 0 -> "0" [] d = 1 -> "1" [] d = 2 -> "2" [] d = 3 -> "3" [] d = 4 -> "4"
      [] d = 5 -> "5" [] d = 6 -> "6" [] d = 7 -> "7" [] d = 8 -> "8" [] d = 9 -> "9"

\* the decimal numeral of an integer
RECURSIVE Decimal(_)
Decimal(n) ==
    IF n < 0 THEN "-" \o Decimal(0 - n)
    ELSE IF n < 10 THEN Digit(n)
    ELSE Decimal(n \div 10) \o Digit(n % 10)

\* C12: h.Error() is "[" + decimal(h.Code) + "] HTTP Error: - " + h.Message,
\* whatever Meta and the cause are; NewHTTPError(400, "bad request").Error()
\* is "[400] HTTP Error: - bad request"; for a value of WrapError(c, err) the
\* text after the prefix is err.Error().
C12_ErrorFormat ==
    /\ (last.op = "Error" /\ heap[last.arg].kind = "http") =>
          LET h == heap[last.arg]
              prefix == "[" \o Decimal(h.Code) \o "] HTTP Error: - "
          IN  /\ last.str = prefix \o h.Message
              /\ h.err # Nil =>
                    last.str = prefix \o (IF heap[h.err].kind = "http"
                                          THEN Error(heap, h.err) ELSE heap[h.err].s)
              /\ \A k \in Keys, v \in Vals :
                    Error(AddMetaValue(heap, last.arg, k, v).heap, last.arg) = last.str
              /\ Error([heap EXCEPT ![last.arg].err = Nil], last.arg) = last.str
    /\ Error(NewHTTPError(<<>>, 400, "bad request").heap, 1)
          = "[400] HTTP Error: - bad request"

C12_Witness ==
    /\ last.op = "Error"
    /\ heap[last.arg].kind = "http"
    /\ heap[last.arg].Code = 403
    /\ heap[last.arg].err # Nil
    /\ heap[heap[last.arg].err].err # Nil
    /\ last.str = "[403] HTTP Error: - ctx: [404] HTTP Error: - not found"

=============================================================================
